---------------------------- MODULE Spec2Model ----------------------------
(***************************************************************************)
(* NaturalCities_Mexico: the City Clustering Algorithm by Convex Envelope   *)
(* Intersections (script/DataProcessing.py) and the power-law analysis      *)
(* with its bootstrap hypothesis test (script/StatisticAnalysis.py,         *)
(* script/RegionalAnalysis.py), the pre-processing of the census, the       *)
(* working directories and files of the scripts and the partition of the    *)
(* cities by region.                                                        *)
(*                                                                          *)
(* Geometry is exact integer geometry on a small lattice.  A geometry is a  *)
(* set of convex pieces, a piece is the set of vertices of a convex polygon *)
(* of positive area, and the region of a geometry is the union of its       *)
(* pieces.  The empty set of pieces is the empty geometry.                  *)
(***************************************************************************)
EXTENDS Integers, Sequences, FiniteSets, TLC

\* ------------------------------------------------------------------ bounds
\* Largest number of input polygons of one clustering call.
MaxPolys == 4

\* Side of the lattice square [0, GridMax] x [0, GridMax] holding the polygons.
GridMax == 4

\* The null of pandas (NaN): a missing id_convex or a missing sum.  Ids start
\* at 1 and sums are not negative, so -1 is no value of either column.
NULL == -1

\* ---------------------------------------------------------------- geometry
\* z component of (a - o) x (b - o): > 0 when b is to the left of o -> a.
Cross(o, a, b) ==
    (a[1] - o[1]) * (b[2] - o[2]) - (a[2] - o[2]) * (b[1] - o[1])

\* (p - a) . (b - a): the position of p along a -> b.
Along(a, b, q) ==
    (q[1] - a[1]) * (b[1] - a[1]) + (q[2] - a[2]) * (b[2] - a[2])

Min2(a, b) == IF a <= b THEN a ELSE b
Max2(a, b) == IF a >= b THEN a ELSE b

\* The rectangle [x1, x2] x [y1, y2] as a geometry of one convex piece.
Rect(x1, y1, x2, y2) ==
    { { <<x1, y1>>, <<x2, y1>>, <<x2, y2>>, <<x1, y2>> } }

EmptyGeometry == {}

\* All vertices of a geometry.
Vertices(geom) == UNION geom

\* The directed edges a -> b of the convex hull of the point set V that keep
\* all of V on their left (counter-clockwise boundary lines).
HullEdges(V) ==
    { e \in V \X V :
        /\ e[1] # e[2]
        /\ \A v \in V : Cross(e[1], e[2], v) >= 0 }

\* shapely convex_hull: the extreme points of the vertices of the geometry (a
\* point is dropped when it lies strictly inside the hull or in the middle of
\* one of its edges).  The hull of the empty geometry is empty.
ConvexHull(geom) ==
    LET V == Vertices(geom)
    IN  UNION { { q \in V :
                    /\ \E e \in E : q = e[1]
                    /\ \A e \in E :
                         \/ Cross(e[1], e[2], q) # 0
                         \/ Along(e[1], e[2], q) <= 0
                         \/ Along(e[1], e[2], q) >= Along(e[1], e[2], e[2]) } :
                E \in { HullEdges(V) } }

\* The interiors of the convex polygons A and B meet: no edge line of either
\* separates them (separating-axis theorem).
InteriorsMeet(A, B) ==
    /\ A # {} /\ B # {}
    /\ ~ \E e \in HullEdges(A) : \A v \in B : Cross(e[1], e[2], v) <= 0
    /\ ~ \E e \in HullEdges(B) : \A v \in A : Cross(e[1], e[2], v) <= 0

\* The boundaries of A and B run along a common segment of positive length.
ShareSegment(A, B) ==
    \E e \in HullEdges(A), f \in HullEdges(B) :
        /\ Cross(e[1], e[2], f[1]) = 0
        /\ Cross(e[1], e[2], f[2]) = 0
        /\ LET lo == Min2(Along(e[1], e[2], f[1]), Along(e[1], e[2], f[2]))
               hi == Max2(Along(e[1], e[2], f[1]), Along(e[1], e[2], f[2]))
           IN  Max2(0, lo) < Min2(Along(e[1], e[2], e[2]), hi)

\* shapely intersects: the closed convex polygons A and B have a common point.
\* They have none exactly when an edge line of one has the other strictly on
\* its outer side.
Intersects(A, B) ==
    /\ A # {} /\ B # {}
    /\ ~ \E e \in HullEdges(A) : \A v \in B : Cross(e[1], e[2], v) < 0
    /\ ~ \E e \in HullEdges(B) : \A v \in A : Cross(e[1], e[2], v) < 0

\* Two hulls belong to one polygon of the unary union when they overlap in
\* area or share a boundary segment; hulls that only touch in a point stay
\* separate polygons of the MultiPolygon.
Dissolves(A, B) == InteriorsMeet(A, B) \/ ShareSegment(A, B)


\* ------------------------------------------------------------------ tables
\* The elements of a finite set of integers in ascending order.
RECURSIVE SortedSeq(_)
SortedSeq(S) ==
    IF S = {} THEN <<>>
    ELSE LET m == CHOOSE x \in S : \A y \in S : x <= y
         IN  <<m>> \o SortedSeq(S \ {m})

\* The concatenation of F[1], ..., F[n].
RECURSIVE Concat(_, _)
Concat(F, n) == IF n = 0 THEN <<>> ELSE Concat(F, n - 1) \o F[n]

\* The sum of a sequence of integers.
RECURSIVE SumSeq(_)
SumSeq(s) == IF s = << >> THEN 0 ELSE Head(s) + SumSeq(Tail(s))

\* The sum of the field POBTOT over the rows of a table.
RECURSIVE SumPOBTOT(_)
SumPOBTOT(rows) ==
    IF rows = <<>> THEN 0 ELSE Head(rows).POBTOT + SumPOBTOT(Tail(rows))

\* -------------------------------------------------- centroid and containment
\* The unit cells of the lattice square, each named by its lower left corner.
Cells == (0 .. GridMax - 1) \X (0 .. GridMax - 1)

\* The point (pt.x / pt.d, pt.y / pt.d) lies in the interior of the convex
\* polygon with vertices V.
StrictlyInside(pt, V) ==
    /\ V # {}
    /\ \A e \in HullEdges(V) :
         (e[2][1] - e[1][1]) * (pt.y - pt.d * e[1][2])
           - (e[2][2] - e[1][2]) * (pt.x - pt.d * e[1][1]) > 0

\* The cells covered by the region of a geometry whose pieces have lattice
\* aligned sides: those whose centre is interior to a piece.
CoveredCells(geom) ==
    { c \in Cells :
        \E V \in geom :
            StrictlyInside([x |-> 2 * c[1] + 1, y |-> 2 * c[2] + 1, d |-> 2], V) }

\* The sum of the doubled k-th coordinates of the centres of a set of cells.
RECURSIVE SumCentres(_, _)
SumCentres(cs, k) ==
    IF cs = {} THEN 0
    ELSE LET c == CHOOSE c \in cs : TRUE
         IN  (2 * c[k] + 1) + SumCentres(cs \ {c}, k)

\* POINT EMPTY, the centroid of an empty geometry (a point has d > 0).
EmptyPoint == [x |-> 0, y |-> 0, d |-> 0]

\* geopandas centroid: the centre of mass of the region, as the exact
\* fraction (x / d, y / d); the centroid of an empty geometry is empty.
Centroid(geom) ==
    LET cs == CoveredCells(geom)
        n  == Cardinality(cs)
    IN  IF n = 0 THEN EmptyPoint
        ELSE [x |-> SumCentres(cs, 1), y |-> SumCentres(cs, 2), d |-> 2 * n]

\* ------------------------------------------------------------------ shapes
\* Locality shapes: two strips that overlap in the unit square at the origin
\* and form an L, a block in the notch of the L, a block that touches the
\* first one in the corner (3, 3), a block that shares an edge with both, and
\* the empty geometry.
StripEast  == Rect(0, 0, 4, 1)
StripNorth == Rect(0, 0, 1, 4)
Notch      == Rect(2, 2, 3, 3)
Corner     == Rect(3, 3, 4, 4)
Side       == Rect(3, 2, 4, 3)

Shapes == { StripEast, StripNorth, Notch, Corner, Side, EmptyGeometry }

\* Every geometry a call can meet: a locality shape, or a natural city of
\* the first pass, which is made of the hulls of some locality shapes.
Geometries == SUBSET (UNION Shapes)

\* The operators of the geometry engine tabulated on these geometries, so
\* that each value is computed once.
HullOf == [g \in Geometries |-> ConvexHull(g)] @@ << >>

Hulls == { HullOf[g] : g \in Geometries }

DissolvesOf == [A \in Hulls |-> { B \in Hulls : Dissolves(A, B) }] @@ << >>

CentroidOf == [g \in Geometries |-> Centroid(g)] @@ << >>

InsideOf ==
    [g \in Geometries |-> { V \in Hulls : StrictlyInside(CentroidOf[g], V) }] @@ << >>

\* The predicate 'contains' in place of 'within': a point contains no polygon.
CentroidContains(geom, part) ==
    /\ CentroidOf[geom] # EmptyPoint
    /\ \A V \in part : V = {}

\* data_polygons.centroid joined 'within' a polygon of the union: the centroid
\* of geom lies in the interior of the region of the geometry part.  The
\* interior of a union of pieces contains the interior of every piece; a
\* centroid is interior to the hull of its own polygon, which is a piece of
\* exactly one polygon of the union.
CentroidWithin(geom, part) ==
    /\ CentroidOf[geom] # EmptyPoint
    /\ \E V \in part : V \in InsideOf[geom]

\* ------------------------------------- CCA_by_ConvexEnvelopIntersections
\* geometry_convexhull: the convex hull of every input polygon, row by row.
geometry_convexhull(polys) ==
    [i \in 1 .. Len(polys) |-> HullOf[polys[i].geometry]]

\* The rows whose hulls are dissolved into the same polygon as the rows of S:
\* the least set around S closed under Dissolves.
RECURSIVE Grow(_, _)
Grow(hulls, S) ==
    LET T == S \cup { m \in DOMAIN hulls :
                        /\ hulls[m] # {}
                        /\ \E i \in S : hulls[m] \in DissolvesOf[hulls[i]] }
    IN  IF T = S THEN S ELSE Grow(hulls, T)

\* The hulls left as they are, none dissolved into another.
unary_union_undissolved(hulls) ==
    { { hulls[i] } : i \in { m \in DOMAIN hulls : hulls[m] # {} } }

\* unary_union: the polygons of the union of the hulls, each one the geometry
\* made of the hulls dissolved into it.  Empty hulls add nothing.
unary_union(hulls) ==
    { { hulls[i] : i \in Grow(hulls, {m}) } :
        m \in { i \in DOMAIN hulls : hulls[i] # {} } }

\* The enumerations .geoms may give of the polygons of a MultiPolygon: the
\* order is the geometry engine's and the code does not choose it.
Enumerations(parts) ==
    { g \in [1 .. Cardinality(parts) -> parts] :
        \A a, b \in DOMAIN g : a # b => g[a] # g[b] }

\* data_convexhull: one row per polygon of the union, its id the index + 1.
convexhull_rows(geoms) ==
    [k \in 1 .. Len(geoms) |-> [geometry |-> geoms[k], id_convex |-> k]]

\* gpd.sjoin(how = 'left', predicate = 'within') of the centroids with
\* data_convexhull, key and id_convex kept: a centroid within no polygon keeps
\* one row with a null id, a centroid within several gets one row for each.
sjoin_within(polys, hullrows) ==
    LET rowsOf(i) ==
            LET m  == { k \in DOMAIN hullrows :
                          CentroidWithin(polys[i].geometry, hullrows[k].geometry) }
                ms == SortedSeq(m)
            IN  IF m = {}
                THEN << [key |-> polys[i].key, id_convex |-> NULL] >>
                ELSE [n \in 1 .. Len(ms) |->
                        [key |-> polys[i].key, id_convex |-> hullrows[ms[n]].id_convex]]
    IN  Concat([i \in 1 .. Len(polys) |-> rowsOf(i)], Len(polys))

\* pd.merge(data_polygons, data_centroid, how = 'left', on = key): every
\* polygon row is paired with every centroid row that carries its key.
merge_on_key(polys, centroids) ==
    LET rowsOf(i) ==
            LET SameKey(c) == c.key = polys[i].key
                cs == SelectSeq(centroids, SameKey)
            IN  IF cs = <<>>
                THEN << [row |-> i, key |-> polys[i].key, POBTOT |-> polys[i].POBTOT,
                         geometry |-> polys[i].geometry, id_convex |-> NULL] >>
                ELSE [n \in 1 .. Len(cs) |->
                        [row |-> i, key |-> polys[i].key, POBTOT |-> polys[i].POBTOT,
                         geometry |-> polys[i].geometry, id_convex |-> cs[n].id_convex]]
    IN  Concat([i \in 1 .. Len(polys) |-> rowsOf(i)], Len(polys))

\* dissolve with the default aggfunc = 'first': the attribute of a group is
\* that of its first row.
dissolve_first(merged) ==
    LET ids == SortedSeq({ merged[n].id_convex : n \in DOMAIN merged } \ {NULL})
        group(id) ==
            LET InGroup(r) == r.id_convex = id
            IN  SelectSeq(merged, InGroup)
    IN  [n \in 1 .. Len(ids) |->
            LET g == group(ids[n])
            IN  [id_convex |-> ids[n],
                 geometry  |-> UNION { g[m].geometry : m \in DOMAIN g },
                 POBTOT    |-> g[1].POBTOT]]

\* dissolve with dropna = False: the rows with a null id form a group too.
dissolve_keep_null(merged) ==
    LET ids == SortedSeq({ merged[n].id_convex : n \in DOMAIN merged })
        group(id) ==
            LET InGroup(r) == r.id_convex = id
            IN  SelectSeq(merged, InGroup)
    IN  [n \in 1 .. Len(ids) |->
            LET g == group(ids[n])
            IN  [id_convex |-> ids[n],
                 geometry  |-> UNION { g[m].geometry : m \in DOMAIN g },
                 POBTOT    |-> SumPOBTOT(g)]]

\* dissolve(by = 'id_convex', aggfunc = 'sum'): one row per id that occurs,
\* in ascending order, with the union of the geometries and the sum of the
\* attribute; rows with a null id belong to no group.
dissolve_sum(merged) ==
    LET ids == SortedSeq({ merged[n].id_convex : n \in DOMAIN merged } \ {NULL})
        group(id) ==
            LET InGroup(r) == r.id_convex = id
            IN  SelectSeq(merged, InGroup)
    IN  [n \in 1 .. Len(ids) |->
            LET g == group(ids[n])
            IN  [id_convex |-> ids[n],
                 geometry  |-> UNION { g[m].geometry : m \in DOMAIN g },
                 POBTOT    |-> SumPOBTOT(g)]]

\* pd.merge(data_convexhull, data_grouped, how = 'left', on = 'id_convex')
\* without geometry_y: every union polygon with the sum of its group, null
\* when no row was grouped under its id.
merge_on_id(hullrows, grouped) ==
    [k \in DOMAIN hullrows |->
        LET SameId(g) == g.id_convex = hullrows[k].id_convex
            gs == SelectSeq(grouped, SameId)
        IN  [id_convex |-> hullrows[k].id_convex,
             geometry  |-> hullrows[k].geometry,
             POBTOT    |-> IF gs = <<>> THEN NULL ELSE gs[1].POBTOT]]

\* ------------------------------------------------------------------- state
VARIABLES
    data_polygons,    \* the input table: rows [geometry, key, POBTOT]
    pc,               \* "call", "returned" or the name of the exception raised
    data_centroid,    \* the centroid table after the spatial join
    data_merged,      \* the polygons merged with data_centroid on the key
    data_grouped,     \* second value returned: the dissolved groups
    natural_cities,   \* first value returned: data_convexhull with the sums
    pass,             \* 1: the localities are clustered, 2: the natural cities
    first_cities      \* in pass 2, the natural cities returned by pass 1

cca_vars == << data_polygons, pc, data_centroid, data_merged, data_grouped,
               natural_cities, pass, first_cities >>

\* StatisticalAnalysis_PowerLaw
VARIABLES
    df,               \* data[variable]: the sample, a sequence of sizes
    it,               \* the number of iterations asked for
    test,             \* perform the hypothesis test or not
    pl_pc,            \* "fit", "loop", "divide", "returned" or an exception
    fit,              \* the fit of the empirical sample: [xmin, alpha, sigma, D]
    ks_distance,      \* fit.D as read before the loop
    tail,             \* the values of the sample below fit.xmin
    n_1,              \* len(tail)
    n_2,              \* len(df) - n_1
    p,                \* the counter of worse synthetic fits
    j,                \* the number of iterations of the loop executed
    simulated_D,      \* fit_simulated.power_law.D of every iteration so far
    results,          \* the dictionary returned
    rng,              \* numpy's global generator: [seed, drawn]
    simulated_data,   \* the synthetic sample of every iteration so far
    run,              \* 1: the first call, 2: the call repeated by the caller
    first_run,        \* in run 2, what the first call drew and returned
    natural_city_system   \* the sizes of the cities exported by the caller

pl_vars == << df, it, test, pl_pc, fit, ks_distance, tail, n_1, n_2, p, j,
              simulated_D, results, rng, simulated_data, run, first_run,
              natural_city_system >>

\* gpd.sjoin of one centroid with one polygon of the union
VARIABLES
    left_df,          \* the row of the left table: a point [x, y, d]
    right_df,         \* the row of the right table: [geometry, id_convex]
    sj_pc,            \* "join" or "joined"
    joined            \* the row the join gives: [geometry, id_convex]

join_vars == << left_df, right_df, sj_pc, joined >>

\* DATA PRE-PROCESSING of DataProcessing.py
VARIABLES
    census_csv,              \* CPyV2020_Localidades.csv as it was read
    localities_census2020,   \* the census table
    localities_polygons,     \* the table of the locality polygons
    localities,              \* the table handed to the clustering
    pre_pc                   \* the next step of the script

pre_vars == << census_csv, localities_census2020, localities_polygons,
               localities, pre_pc >>

\* The working directory and the files of the five scripts
VARIABLES
    cwd,              \* the working directory of the process, a path
    directories,      \* the directories that exist
    files,            \* the files that exist: pairs << directory, name >>
    script,           \* the script that is running, or "none"
    ip,               \* the position of the script in its file accesses
    outcome,          \* how each script ended, or that it did not yet
    accesses          \* the reads and writes made so far

fs_vars == << cwd, directories, files, script, ip, outcome, accesses >>

\* RegionalPartition_States and RegionalPartition_data of RegionalAnalysis.py
VARIABLES
    states_polygons,  \* the table of the states: rows [CVE_ENT, geometry]
    data,             \* the table of cities handed to RegionalPartition_data
    state_partition,  \* region name -> the rows of its states
    region_partition, \* region name -> the rows of the overlay
    ra_pc             \* "states", "data" or "partitioned"

ra_vars == << states_polygons, data, state_partition, region_partition, ra_pc >>

vars == << cca_vars, pl_vars, join_vars, pre_vars, fs_vars, ra_vars >>

\* No call of StatisticalAnalysis_PowerLaw is in progress.
IdlePowerLaw ==
    /\ df = << >> /\ it = 0 /\ test = FALSE /\ pl_pc = "idle"
    /\ fit = << >> /\ ks_distance = NULL /\ tail = << >>
    /\ n_1 = 0 /\ n_2 = 0 /\ p = 0 /\ j = 0
    /\ simulated_D = << >> /\ results = << >>
    /\ rng = << >> /\ simulated_data = << >> /\ run = 1 /\ first_run = << >>
    /\ natural_city_system = << >>

\* No call of CCA_by_ConvexEnvelopIntersections is in progress.
IdleCCA ==
    /\ data_polygons = << >> /\ pc = "idle"
    /\ data_centroid = << >> /\ data_merged = << >> /\ data_grouped = << >>
    /\ natural_cities = << >> /\ pass = 1 /\ first_cities = << >>

\* No spatial join is studied on its own.
IdleJoin ==
    /\ left_df = << >> /\ right_df = << >> /\ sj_pc = "idle" /\ joined = << >>

\* No script touches the files.
IdleFiles ==
    /\ cwd = << >> /\ directories = {} /\ files = {} /\ script = "idle"
    /\ ip = 0 /\ outcome = << >> /\ accesses = {}

\* No regional partition is in progress.
IdleRegional ==
    /\ states_polygons = << >> /\ data = << >> /\ state_partition = << >>
    /\ region_partition = << >> /\ ra_pc = "idle"

\* The script is not running.
IdlePreProcessing ==
    /\ census_csv = << >>
    /\ localities_census2020 = << >> /\ localities_polygons = << >>
    /\ localities = << >> /\ pre_pc = "idle"

\* ------------------------------------------------------------------ inputs
\* The key columns of n rows up to renaming of the keys (only equality of
\* keys is ever tested): the first row has key 1 and every row has a key
\* already seen or the next unused one.  Keys may repeat.
KeyColumns(n) ==
    { k \in [1 .. n -> 1 .. n] :
        /\ k[1] = 1
        /\ \A i \in 2 .. n : \E h \in 1 .. i - 1 : k[i] <= k[h] + 1 }

\* Populations 1, PobBase, PobBase^2, ... by row: positive, and distinct
\* enough that a sum tells which rows went into it and how often.
PobBase == 10

RECURSIVE Power(_, _)
Power(b, e) == IF e = 0 THEN 1 ELSE b * Power(b, e - 1)

\* The locality shapes in a fixed order.
ShapeList == << StripEast, StripNorth, Notch, Corner, Side, EmptyGeometry >>

\* The geometry columns of n rows: at least one geometry is not empty.  No
\* step of the function reads the position of a row (rows are matched by
\* geometry and by key), so a table stands for all its reorderings and the
\* rows are listed in the order of ShapeList.
GeometryColumns(n) ==
    { [i \in 1 .. n |-> ShapeList[f[i]]] :
        f \in { c \in [1 .. n -> DOMAIN ShapeList] :
                  /\ \A i \in 1 .. n - 1 : c[i] <= c[i + 1]
                  /\ \E i \in 1 .. n : ShapeList[c[i]] # EmptyGeometry } }

\* The table CCA_by_ConvexEnvelopIntersections is called with has 1 to
\* MaxPolys rows.
InitCCA ==
    /\ \E n \in 1 .. MaxPolys :
         \E g \in GeometryColumns(n), k \in KeyColumns(n) :
            data_polygons =
               [i \in 1 .. n |->
                  [geometry |-> g[i], key |-> k[i], POBTOT |-> Power(PobBase, i - 1)]]
    /\ pc = "call"
    /\ data_centroid = << >>
    /\ data_merged = << >>
    /\ data_grouped = << >>
    /\ natural_cities = << >>
    /\ pass = 1
    /\ first_cities = << >>
    /\ IdlePowerLaw
    /\ IdleJoin
    /\ IdlePreProcessing
    /\ IdleFiles
    /\ IdleRegional

\* ----------------------------------------------------------------- actions
\* The call returns: the union of the hulls is a MultiPolygon, .geoms gives
\* its polygons in some order, and the tables are built from them.
CCA_Returns ==
    /\ pc = "call"
    /\ LET parts == unary_union(geometry_convexhull(data_polygons))
       IN  /\ Cardinality(parts) # 1
           /\ \E geoms \in Enumerations(parts) :
                LET data_convexhull == convexhull_rows(geoms)
                    centroids == sjoin_within(data_polygons, data_convexhull)
                    merged    == merge_on_key(data_polygons, centroids)
                    grouped   == dissolve_sum(merged)
                IN  /\ data_centroid' = centroids
                    /\ data_merged' = merged
                    /\ data_grouped' = grouped
                    /\ natural_cities' = merge_on_id(data_convexhull, grouped)
    /\ pc' = "returned"
    /\ UNCHANGED << data_polygons, pass, first_cities, pl_vars, join_vars, pre_vars, fs_vars, ra_vars >>

\* The call raises: the union of the hulls is one Polygon, which has no
\* attribute geoms.
CCA_Raises ==
    /\ pc = "call"
    /\ Cardinality(unary_union(geometry_convexhull(data_polygons))) = 1
    /\ pc' = "AttributeError"
    /\ UNCHANGED << data_polygons, data_centroid, data_merged, data_grouped,
                    natural_cities, pass, first_cities, pl_vars, join_vars, pre_vars, fs_vars, ra_vars >>

CCA_by_ConvexEnvelopIntersections == CCA_Returns \/ CCA_Raises

\* The natural cities returned by the first pass are clustered again, each
\* one taken as an input polygon with its id as key.
Recluster ==
    /\ pc = "returned"
    /\ pass = 1
    /\ \A k \in DOMAIN natural_cities : natural_cities[k].POBTOT # NULL
    /\ data_polygons' =
          [k \in DOMAIN natural_cities |->
              [geometry |-> natural_cities[k].geometry,
               key      |-> natural_cities[k].id_convex,
               POBTOT   |-> natural_cities[k].POBTOT]]
    /\ first_cities' = natural_cities
    /\ pass' = 2
    /\ pc' = "call"
    /\ data_centroid' = << >>
    /\ data_merged' = << >>
    /\ data_grouped' = << >>
    /\ natural_cities' = << >>
    /\ UNCHANGED << pl_vars, join_vars, pre_vars, fs_vars, ra_vars >>

\* --------------------------------------------- StatisticalAnalysis_PowerLaw
\* Largest sample, largest size in a sample, most iterations asked for.
MaxLen == 3
MaxValue == 3
MaxIt == 2

\* Kolmogorov-Smirnov distances are reals in [0, 1]; the model keeps them on
\* the scale 0 .. MaxKS.  Exponents and their standard errors are kept on
\* the scales 2 .. MaxAlpha and 1 .. MaxSigma.
MaxKS == 1
MaxAlpha == 3
MaxSigma == 1

\* Comparison of floats: false when either side is NaN.
FloatGreaterOrEqual(x, y) == x # NULL /\ y # NULL /\ x >= y
FloatGreater(x, y) == x # NULL /\ y # NULL /\ x > y
FloatLess(x, y) == x # NULL /\ y # NULL /\ x < y

\* The float as it is, nothing subtracted.
FloatKeep(x, y) == x

\* Float subtraction: NaN - 1 is NaN.
FloatMinus(x, y) == IF x = NULL THEN NULL ELSE x - y

\* The test is made whatever the flag says.
TestAlways(flag) == TRUE

\* Line 76, test == True: the hypothesis test was asked for.
TestRequested(flag) == flag = TRUE

\* range(n): the values the loop variable takes.
range_inclusive(n) == 0 .. n
range(n) == 0 .. n - 1

\* The set of values of a sequence.
Range(s) == { s[n] : n \in DOMAIN s }

\* powerlaw.Fit keeps the positive values when the data hold a 0.
FittedData(sample) ==
    LET Positive(x) == x > 0
    IN  IF 0 \in Range(sample) THEN SelectSeq(sample, Positive) ELSE sample

\* The candidates of the search for xmin: the distinct values of the fitted
\* data without the largest.
XminCandidates(sample) ==
    LET u == Range(FittedData(sample))
    IN  { x \in u : \E y \in u : y > x }

\* The fits powerlaw.Fit(discrete = True, estimate_discrete = True) can give
\* for a sample.  With fewer than two distinct values left there is nothing
\* to search and the fit holds NaN in every field; otherwise xmin is one of
\* the candidates and the exponent, its standard error and the distance are
\* numbers.
Fits(sample) ==
    IF XminCandidates(sample) = {}
    THEN { [xmin |-> NULL, alpha |-> NULL, sigma |-> NULL, D |-> NULL] }
    ELSE [xmin : XminCandidates(sample), alpha : 2 .. MaxAlpha,
          sigma : 1 .. MaxSigma, D : 0 .. MaxKS]

\* The samples: 1 to MaxLen sizes from 0 to MaxValue.
Samples == UNION { [1 .. n -> 0 .. MaxValue] : n \in 1 .. MaxLen }

\* The seeds the caller may give numpy's global generator.
MaxSeed == 2

\* The generator keeps the state it was left in: the seed is not set again.
keep_state(g, sd) == g

\* np.random.seed(sd): the generator starts the stream of the seed anew.
np_random_seed(g, sd) == [seed |-> sd, drawn |-> 0]

\* The k-th number of the stream of the seed sd.  The stream is a function of
\* the seed; which function does not matter to the code, which only takes
\* the numbers in turn.
Raw(sd, k) == (sd + 1) * (k + 1) + k * k

\* fit.power_law.generate_random(n, estimate_discrete = True): n sizes from
\* the fitted power law, each at least xmin, made from the next n numbers of
\* the generator (sizes above MaxValue are not drawn).  A fit of NaN gives NaN.
generate_random(n, f, g) ==
    [i \in 1 .. n |->
        IF f.xmin = NULL THEN NULL
        ELSE f.xmin + (Raw(g.seed, g.drawn + i) % (MaxValue - f.xmin + 1))]

\* np.random.randint(low, high, (size)): size integers of low .. high - 1
\* made from the next numbers of the generator.
randint(low, high, size, g) ==
    [i \in 1 .. size |-> low + (Raw(g.seed, g.drawn + i) % (high - low))]

\* The generator after n numbers were taken.
Advance(g, n) == [g EXCEPT !.drawn = @ + n]

\* fit_simulated.power_law.D: the distance of the fit of a synthetic sample,
\* a function of the sample.  It is NaN when the sample leaves nothing to
\* search for xmin; its value otherwise is read off the sample on the scale
\* 0 .. MaxKS.
SimulatedD(sample) ==
    IF XminCandidates(sample) = {} THEN NULL
    ELSE SumSeq(sample) % (MaxKS + 1)

InitPowerLaw ==
    /\ df \in Samples
    /\ it \in 0 .. MaxIt
    /\ test \in BOOLEAN
    /\ pl_pc = "fit"
    /\ fit = << >> /\ ks_distance = NULL /\ tail = << >>
    /\ n_1 = 0 /\ n_2 = 0 /\ p = 0 /\ j = 0
    /\ simulated_D = << >> /\ results = << >>
    /\ \E sd \in 0 .. MaxSeed : rng = [seed |-> sd, drawn |-> 0]
    /\ simulated_data = << >>
    /\ run = 1
    /\ first_run = << >>
    /\ natural_city_system = << >>
    /\ IdleCCA
    /\ IdleJoin
    /\ IdlePreProcessing
    /\ IdleFiles
    /\ IdleRegional

\* Lines 64-75: the fit of the empirical sample and the split at xmin.
FitEmpirical ==
    /\ pl_pc = "fit"
    /\ \E f \in Fits(df) :
         LET Below(x) == FloatLess(x, f.xmin)
             t == SelectSeq(df, Below)
         IN  /\ fit' = f
             /\ ks_distance' = f.D
             /\ tail' = t
             /\ n_1' = Len(t)
             /\ n_2' = Len(df) - Len(t)
    /\ p' = 0
    /\ pl_pc' = IF TestRequested(test) /\ range(it) # {} THEN "loop" ELSE "divide"
    /\ UNCHANGED << natural_city_system, df, it, test, j, simulated_D, results, rng, simulated_data,
                    run, first_run, cca_vars, join_vars, pre_vars, fs_vars, ra_vars >>

\* Lines 77-83: one iteration of the bootstrap loop.  The synthetic sample is
\* made of n_2 generated sizes and n_1 sizes picked from the tail, it is
\* fitted, and the counter grows when its distance is greater.
Iteration ==
    /\ pl_pc = "loop"
    /\ j \in range(it)
    /\ LET simulated_powerlaw == generate_random(n_2, fit, rng)
           picks              == randint(0, n_1, n_1, Advance(rng, n_2))
           simulated_tail     == [i \in 1 .. n_1 |-> tail[picks[i] + 1]]
           sample             == simulated_tail \o simulated_powerlaw
           d                  == SimulatedD(sample)
       IN  /\ simulated_data' = Append(simulated_data, sample)
           /\ simulated_D' = Append(simulated_D, d)
           /\ p' = IF FloatGreater(d, ks_distance) THEN p + 1 ELSE p
    /\ rng' = Advance(rng, n_2 + n_1)
    /\ j' = j + 1
    /\ pl_pc' = IF j + 1 \in range(it) THEN "loop" ELSE "divide"
    /\ UNCHANGED << natural_city_system, df, it, test, fit, ks_distance, tail, n_1, n_2, results,
                    run, first_run, cca_vars, join_vars, pre_vars, fs_vars, ra_vars >>

\* Lines 84-88 when it # 0: p / it and the dictionary returned.
Return ==
    /\ pl_pc = "divide"
    /\ it # 0
    /\ results' = [xmin |-> fit.xmin, alpha |-> FloatMinus(fit.alpha, 1),
                   sigma |-> fit.sigma, ks_distance |-> ks_distance,
                   p_value |-> [num |-> p, den |-> it],
                   test_iterations |-> it]
    /\ pl_pc' = "returned"
    /\ UNCHANGED << natural_city_system, df, it, test, fit, ks_distance, tail, n_1, n_2, p, j,
                    simulated_D, rng, simulated_data, run, first_run,
                    cca_vars, join_vars, pre_vars, fs_vars, ra_vars >>

\* Line 84 when it = 0: the division p / it raises.
DivisionByZero ==
    /\ pl_pc = "divide"
    /\ it = 0
    /\ pl_pc' = "ZeroDivisionError"
    /\ UNCHANGED << natural_city_system, df, it, test, fit, ks_distance, tail, n_1, n_2, p, j,
                    simulated_D, results, rng, simulated_data, run, first_run,
                    cca_vars, join_vars, pre_vars, fs_vars, ra_vars >>

\* With a fit of NaN the calls into the library after the fit (the random
\* generation, the comparison with the lognormal) may raise an exception of
\* the library's own.
LibraryRaises ==
    /\ pl_pc \in {"loop", "divide"}
    /\ fit.xmin = NULL
    /\ pl_pc' = "LibraryError"
    /\ UNCHANGED << natural_city_system, df, it, test, fit, ks_distance, tail, n_1, n_2, p, j,
                    simulated_D, results, rng, simulated_data, run, first_run,
                    cca_vars, join_vars, pre_vars, fs_vars, ra_vars >>

StatisticalAnalysis_PowerLaw ==
    FitEmpirical \/ Iteration \/ Return \/ DivisionByZero \/ LibraryRaises

\* The caller sets the seed again and repeats the call on the same sample
\* with the same it.  powerlaw.Fit is a function of the sample, so the call
\* finds the fit of the first call; it starts over at line 75.
SecondRun ==
    /\ pl_pc = "returned"
    /\ run = 1
    /\ first_run' = [simulated_data |-> simulated_data,
                     simulated_D    |-> simulated_D,
                     results        |-> results]
    /\ run' = 2
    /\ rng' = np_random_seed(rng, rng.seed)
    /\ p' = 0
    /\ j' = 0
    /\ simulated_data' = << >>
    /\ simulated_D' = << >>
    /\ results' = << >>
    /\ pl_pc' = IF TestRequested(test) /\ range(it) # {} THEN "loop" ELSE "divide"
    /\ UNCHANGED << natural_city_system, df, it, test, fit, ks_distance, tail, n_1, n_2,
                    cca_vars, join_vars, pre_vars, fs_vars, ra_vars >>

\* StatisticAnalysis.py, line 197: the caller keeps the cities whose size is
\* greater than the xmin of the dictionary returned; a comparison with NaN
\* is false.
ExportSystem ==
    /\ pl_pc = "returned"
    /\ LET Above(x) == FloatGreater(x, results.xmin)
       IN  natural_city_system' = SelectSeq(df, Above)
    /\ pl_pc' = "exported"
    /\ UNCHANGED << df, it, test, fit, ks_distance, tail, n_1, n_2, p, j,
                    simulated_D, results, rng, simulated_data, run, first_run,
                    cca_vars, join_vars, pre_vars, fs_vars, ra_vars >>

NextPowerLaw == StatisticalAnalysis_PowerLaw \/ SecondRun \/ ExportSystem

SpecPowerLaw == InitPowerLaw /\ [][NextPowerLaw]_vars

\* ------------------------------------------------------------- gpd.sjoin
\* The points with coordinates that are multiples of 1 / 2 in the lattice
\* square: where the centroids of lattice polygons lie, on and off the sides
\* of the hulls.
JoinPoints ==
    { [x |-> a, y |-> b, d |-> 2] : a \in 0 .. 2 * GridMax, b \in 0 .. 2 * GridMax }

\* The rows of data_convexhull whose geometry is one convex polygon.
JoinPolygons ==
    { [geometry |-> {V}, id_convex |-> 1] : V \in Hulls \ { {} } }

\* Predicate 'within' of a point and a geometry: the point lies in the
\* interior of the geometry; a point of the boundary is not within.
Within(pt, geom) == \E V \in geom : StrictlyInside(pt, V)

\* A centroid and a polygon of the union are handed to the join.
InitJoin ==
    /\ left_df \in JoinPoints
    /\ right_df \in JoinPolygons
    /\ sj_pc = "join"
    /\ joined = << >>
    /\ IdleCCA
    /\ IdlePowerLaw
    /\ IdlePreProcessing
    /\ IdleFiles
    /\ IdleRegional

\* Line 59, gpd.sjoin(how = 'left', predicate = 'within'): the row of the
\* point with the id of the polygon it is within, or with a null id.
sjoin ==
    /\ sj_pc = "join"
    /\ joined' = [geometry  |-> left_df,
                  id_convex |-> IF Within(left_df, right_df.geometry)
                                THEN right_df.id_convex ELSE NULL]
    /\ sj_pc' = "joined"
    /\ UNCHANGED << left_df, right_df, cca_vars, pl_vars, pre_vars, fs_vars, ra_vars >>

NextJoin == sjoin

SpecJoin == InitJoin /\ [][NextJoin]_vars

\* ------------------------------------------------------ DATA PRE-PROCESSING
\* Most rows of the census table and of the table of polygons, and the
\* largest population of a census row.
MaxCensus == 2
MaxLocalities == 2
MaxPob == 1

\* Line 96: the first value of LOC that is no locality of its own.
LocLimit == 9998

\* The values of LOC around the two ends of the range kept.
LocValues == { 0, 1, LocLimit - 1, LocLimit }

\* The decimal digits of a natural number.
RECURSIVE Digits(_)
Digits(n) == IF n < 10 THEN << n >> ELSE Digits(n \div 10) \o << n % 10 >>

\* "{0:0=wd}".format(n): the digits of n, with zeros in front up to width w.
ZeroPad(n, w) ==
    LET ds == Digits(n)
    IN  IF Len(ds) >= w THEN ds ELSE [i \in 1 .. w - Len(ds) |-> 0] \o ds

\* Line 98: the key of a census row, ENTIDAD on 2 digits, MUN on 3 and LOC
\* on 4.
CVEGEO(row) == ZeroPad(row.ENTIDAD, 2) \o ZeroPad(row.MUN, 3) \o ZeroPad(row.LOC, 4)

\* The rows the census file may hold, in one municipality.
CensusRows ==
    [ENTIDAD : {1}, MUN : {1}, LOC : LocValues, POBTOT : 0 .. MaxPob]

\* The rows the file of polygons may hold: a polygon under the key of some
\* value of LOC.
PolygonRows ==
    { [geometry |-> Notch, CVEGEO |-> CVEGEO([ENTIDAD |-> 1, MUN |-> 1, LOC |-> l])] :
        l \in LocValues }

\* Lines 82 and 88: the two files were read.
InitPreProcessing ==
    /\ \E n \in 0 .. MaxCensus : census_csv \in [1 .. n -> CensusRows]
    /\ localities_census2020 = census_csv
    /\ \E n \in 1 .. MaxLocalities : localities_polygons \in [1 .. n -> PolygonRows]
    /\ localities = << >>
    /\ pre_pc = "filter"
    /\ IdleCCA
    /\ IdlePowerLaw
    /\ IdleJoin
    /\ IdleFiles
    /\ IdleRegional

\* The census rows of any locality with inhabitants: no filter on LOC.
AnyLoc(row) == row.POBTOT > 0

\* Lines 95-97: the census rows of inhabited localities.
Inhabited(row) == row.LOC > 0 /\ row.LOC < LocLimit /\ row.POBTOT > 0

\* Lines 95-97: the census table is filtered.
FilterInhabited ==
    /\ pre_pc = "filter"
    /\ localities_census2020' = SelectSeq(localities_census2020, Inhabited)
    /\ pre_pc' = "key"
    /\ UNCHANGED << census_csv, localities_polygons, localities,
                    cca_vars, pl_vars, join_vars, fs_vars, ra_vars >>

\* Lines 98-99: the key is built and the columns CVEGEO and POBTOT are kept.
BuildKey ==
    /\ pre_pc = "key"
    /\ localities_census2020' =
          [n \in DOMAIN localities_census2020 |->
              [CVEGEO |-> CVEGEO(localities_census2020[n]),
               POBTOT |-> localities_census2020[n].POBTOT]]
    /\ pre_pc' = "merge"
    /\ UNCHANGED << census_csv, localities_polygons, localities,
                    cca_vars, pl_vars, join_vars, fs_vars, ra_vars >>

\* pd.merge(localities_polygons, localities_census2020, how = 'left', on =
\* 'CVEGEO'): every polygon with every census row of its key, or with a null
\* POBTOT when there is none.
merge_census(polygons, census) ==
    LET rowsOf(i) ==
            LET SameKey(c) == c.CVEGEO = polygons[i].CVEGEO
                cs == SelectSeq(census, SameKey)
            IN  IF cs = << >>
                THEN << [geometry |-> polygons[i].geometry,
                         CVEGEO |-> polygons[i].CVEGEO, POBTOT |-> NULL] >>
                ELSE [n \in 1 .. Len(cs) |->
                        [geometry |-> polygons[i].geometry,
                         CVEGEO |-> polygons[i].CVEGEO, POBTOT |-> cs[n].POBTOT]]
    IN  Concat([i \in 1 .. Len(polygons) |-> rowsOf(i)], Len(polygons))

\* Lines 102-103: the polygons are joined with the census.
JoinCensus ==
    /\ pre_pc = "merge"
    /\ localities' = merge_census(localities_polygons, localities_census2020)
    /\ pre_pc' = "populated"
    /\ UNCHANGED << census_csv, localities_census2020, localities_polygons,
                    cca_vars, pl_vars, join_vars, fs_vars, ra_vars >>

\* Line 104: the rows with POBTOT > 0 are kept; NaN > 0 is false.
FilterPopulated ==
    /\ pre_pc = "populated"
    /\ LET Populated(row) == FloatGreater(row.POBTOT, 0)
       IN  localities' = SelectSeq(localities, Populated)
    /\ pre_pc' = "cluster"
    /\ UNCHANGED << census_csv, localities_census2020, localities_polygons,
                    cca_vars, pl_vars, join_vars, fs_vars, ra_vars >>

\* Line 115: localities is passed to CCA_by_ConvexEnvelopIntersections.
Cluster ==
    /\ pre_pc = "cluster"
    /\ pre_pc' = "clustering"
    /\ UNCHANGED << census_csv, localities_census2020, localities_polygons,
                    localities, cca_vars, pl_vars, join_vars, fs_vars, ra_vars >>

NextPreProcessing ==
    FilterInhabited \/ BuildKey \/ JoinCensus \/ FilterPopulated \/ Cluster

SpecPreProcessing == InitPreProcessing /\ [][NextPreProcessing]_vars

\* ------------------------------------------- working directory and files
\* The path of the project every script but StatisticAnalysis changes to.
Project == << "C:", "Users", "4PF42LA_1909", "Phyton", "NaturalCities_Mexico" >>

\* The directory above a directory; the drive has none above it.
Parent(dir) == IF Len(dir) <= 1 THEN dir ELSE SubSeq(dir, 1, Len(dir) - 1)

\* A path is absolute when it starts at the drive.
IsAbsolute(path) == path # << >> /\ Head(path) = "C:"

\* The directory a path leads to from a directory, component by component.
RECURSIVE Walk(_, _)
Walk(dir, path) ==
    IF path = << >> THEN dir
    ELSE IF Head(path) = ".." THEN Walk(Parent(dir), Tail(path))
    ELSE Walk(Append(dir, Head(path)), Tail(path))

\* The directory os.chdir(path) asks for when the working directory is dir.
Target(dir, path) == Walk(IF IsAbsolute(path) THEN << >> ELSE dir, path)

\* One access of a script to the file system, with its line in the source.
Access(kind, arg, l) == [op |-> kind, arg |-> arg, line |-> l]

\* The accesses of each script in the order of its lines: the changes of
\* directory, the tables read and the tables, dictionaries and figures
\* written at the top level of the script.
Accesses ==
    [ DataProcessing |->
        << Access("chdir", Project, 78),
           Access("chdir", << "..", "NaturalCities_Mexico", "data" >>, 79),
           Access("read_file", "MGN2020_Localities.gpkg", 82),
           Access("read_file", "SUN2018.gpkg", 85),
           Access("read_csv", "CPyV2020_Localidades.csv", 88),
           Access("chdir", << "..", "NaturalCities_Mexico", "output" >>, 122),
           Access("write", "Localities_data2020.gpkg", 125),
           Access("write", "LocalitiesGrouped_data2020.gpkg", 126),
           Access("write", "NaturalCities_data2020.gpkg", 127),
           Access("write", "SUN2018_data.gpkg", 128) >>,
      StatisticAnalysis |->
        << Access("chdir", << "..", "output" >>, 127),
           Access("read_file", "Localities_data2020.gpkg", 130),
           Access("read_file", "NaturalCities_data2020.gpkg", 131),
           Access("read_file", "SUN2018_data.gpkg", 132),
           Access("chdir", << "..", "output", "StatisticAnalysis" >>, 137),
           Access("write", "Localities_DescriptiveStatistics.csv", 145),
           Access("write", "NaturalCities_DescriptiveStatistics.csv", 148),
           Access("write", "SUN2018_DescriptiveStatistics.csv", 151),
           Access("write", "Localities_PowerLaw.csv", 161),
           Access("write", "NaturalCities_PowerLaw.csv", 164),
           Access("write", "SUN2018_PowerLaw.csv", 167),
           Access("write", "CCDF_above_xmin.png", 179),
           Access("write", "CCDF_full_sample.png", 187),
           Access("chdir", << ".." >>, 194),
           Access("write", "NaturalCitySystem.gpkg", 200) >>,
      RegionalAnalysis |->
        << Access("chdir", Project, 184),
           Access("chdir", << "..", "NaturalCities_Mexico", "data" >>, 186),
           Access("read_file", "MGN2020_States.gpkg", 188),
           Access("chdir", << ".." >>, 191),
           Access("chdir", << "..", "NaturalCities_Mexico", "output" >>, 192),
           Access("read_file", "Localities_data2020.gpkg", 194),
           Access("read_file", "NaturalCities_data2020.gpkg", 195),
           Access("read_file", "SUN2018_data.gpkg", 196) >>,
      MapCities |->
        << Access("chdir", Project, 105),
           Access("chdir", << "..", "NaturalCities_Mexico", "data" >>, 108),
           Access("read_file", "MGN2020_Municipalities.gpkg", 109),
           Access("read_file", "MGN2020_States.gpkg", 110),
           Access("read_file", "MGN2020_Localities.gpkg", 111),
           Access("chdir", << ".." >>, 115),
           Access("chdir", << "..", "NaturalCities_Mexico", "output" >>, 116),
           Access("read_file", "NaturalCitySystem.gpkg", 117),
           Access("read_file", "SUN2018_data.gpkg", 118),
           Access("chdir", << "..", "output", "Maps" >>, 126),
           Access("write", "Cities.png", 141),
           Access("write", "Cities_Background.png", 143),
           Access("chdir", << "..", "Maps", "MetropolitanAreas" >>, 170) >>,
      VisualizationCities |->
        << Access("chdir", Project, 100),
           Access("chdir", << "..", "NaturalCities_Mexico", "data" >>, 103),
           Access("read_file", "MGN2020_Municipalities.gpkg", 104),
           Access("read_file", "MGN2020_States.gpkg", 106),
           Access("read_file", "MGN2020_Localities.gpkg", 108),
           Access("chdir", << ".." >>, 112),
           Access("chdir", << "..", "NaturalCities_Mexico", "output" >>, 113),
           Access("read_file", "NaturalCitySystem.gpkg", 114),
           Access("read_file", "SUN2018_data.gpkg", 115),
           Access("chdir", << "..", "output", "Maps" >>, 123),
           Access("write", "Cities.png", 137),
           Access("chdir", << "..", "Maps", "MetropolitanAreas" >>, 163) >> ]

Scripts == DOMAIN Accesses

\* The scripts that come before a script in the pipeline: DataProcessing is
\* first, and the maps come after StatisticAnalysis.
Before(s) ==
    IF s = "DataProcessing" THEN {}
    ELSE IF s \in { "MapCities", "VisualizationCities" }
         THEN { "DataProcessing", "StatisticAnalysis" }
         ELSE { "DataProcessing" }

\* A directory and the directories above it.
Upwards(dir) == { SubSeq(dir, 1, n) : n \in 1 .. Len(dir) }

\* The directories of the project.
ProjectDirectories ==
    UNION { Upwards(Project \o sub) :
              sub \in { << "data" >>, << "script" >>,
                        << "output", "StatisticAnalysis" >>,
                        << "output", "Maps", "MetropolitanAreas" >> } }

\* Directories that may exist next to them: a directory NaturalCities_Mexico
\* with an output inside the project, an output with a StatisticAnalysis
\* beside the project.
OtherDirectories ==
    (Upwards(Project \o << "NaturalCities_Mexico", "output" >>)
      \cup Upwards(Parent(Project) \o << "output", "StatisticAnalysis" >>))
      \ ProjectDirectories

\* The tables the project comes with, in its directory data.
DataFiles ==
    { << Project \o << "data" >>, name >> :
        name \in { "MGN2020_Localities.gpkg", "MGN2020_Municipalities.gpkg",
                   "MGN2020_States.gpkg", "SUN2018.gpkg",
                   "CPyV2020_Localidades.csv" } }

\* The tables of an earlier run of the pipeline, left in the directory
\* output of the project.
LeftTables ==
    { << Project \o << "output" >>, name >> :
        name \in { "Localities_data2020.gpkg", "NaturalCities_data2020.gpkg",
                   "SUN2018_data.gpkg", "NaturalCitySystem.gpkg" } }

\* The project as it is before the first script runs: with or without the
\* tables of an earlier run.
InitFiles ==
    /\ \E other \in SUBSET OtherDirectories :
          /\ \A dir \in other : Upwards(dir) \subseteq ProjectDirectories \cup other
          /\ directories = ProjectDirectories \cup other
    /\ \E left \in { {}, LeftTables } : files = DataFiles \cup left
    /\ cwd = Project
    /\ script = "none"
    /\ ip = 0
    /\ outcome = [s \in Scripts |-> "not run"]
    /\ accesses = {}
    /\ IdleCCA
    /\ IdlePowerLaw
    /\ IdleJoin
    /\ IdlePreProcessing
    /\ IdleRegional

\* A script is launched, from the project or from its directory script, once
\* the scripts before it have run.
Launch ==
    /\ script = "none"
    /\ \E s \in Scripts :
          /\ outcome[s] = "not run"
          /\ \A e \in Before(s) : outcome[e] # "not run"
          /\ script' = s
          /\ outcome' = [outcome EXCEPT ![s] = "running"]
    /\ \E from \in { Project, Project \o << "script" >> } : cwd' = from
    /\ ip' = 1
    /\ UNCHANGED << directories, files, accesses,
                    cca_vars, pl_vars, join_vars, pre_vars, ra_vars >>

\* The access the running script is at.
Current == Accesses[script][ip]

\* os.chdir(path): the working directory becomes the directory the path
\* leads to; FileNotFoundError when there is no such directory.
os_chdir ==
    /\ script \in Scripts
    /\ ip \in DOMAIN Accesses[script]
    /\ Current.op = "chdir"
    /\ IF Target(cwd, Current.arg) \in directories
       THEN /\ cwd' = Target(cwd, Current.arg)
            /\ ip' = ip + 1
            /\ UNCHANGED << script, outcome >>
       ELSE /\ outcome' = [outcome EXCEPT ![script] = "FileNotFoundError"]
            /\ script' = "none"
            /\ UNCHANGED << cwd, ip >>
    /\ UNCHANGED << directories, files, accesses,
                    cca_vars, pl_vars, join_vars, pre_vars, ra_vars >>

\* gpd.read_file(name) and pd.read_csv(name): the file of that name in the
\* working directory is read; an error is raised when there is none.
read ==
    /\ script \in Scripts
    /\ ip \in DOMAIN Accesses[script]
    /\ Current.op \in { "read_file", "read_csv" }
    /\ accesses' = accesses \cup
          { [script |-> script, op |-> "read", dir |-> cwd, name |-> Current.arg,
             found |-> << cwd, Current.arg >> \in files] }
    /\ IF << cwd, Current.arg >> \in files
       THEN /\ ip' = ip + 1
            /\ UNCHANGED << script, outcome >>
       ELSE /\ outcome' = [outcome EXCEPT ![script] =
                              IF Current.op = "read_csv"
                              THEN "FileNotFoundError" ELSE "DriverError"]
            /\ script' = "none"
            /\ UNCHANGED ip
    /\ UNCHANGED << cwd, directories, files,
                    cca_vars, pl_vars, join_vars, pre_vars, ra_vars >>

\* to_file(name), the csv of a dictionary and savefig(name): the file of that
\* name is written into the working directory.
write ==
    /\ script \in Scripts
    /\ ip \in DOMAIN Accesses[script]
    /\ Current.op = "write"
    /\ files' = files \cup { << cwd, Current.arg >> }
    /\ accesses' = accesses \cup
          { [script |-> script, op |-> "write", dir |-> cwd, name |-> Current.arg,
             found |-> TRUE] }
    /\ ip' = ip + 1
    /\ UNCHANGED << cwd, directories, script, outcome,
                    cca_vars, pl_vars, join_vars, pre_vars, ra_vars >>

\* The script has made its last access and ends.
exit ==
    /\ script \in Scripts
    /\ ip = Len(Accesses[script]) + 1
    /\ outcome' = [outcome EXCEPT ![script] = "done"]
    /\ script' = "none"
    /\ UNCHANGED << cwd, directories, files, ip, accesses,
                    cca_vars, pl_vars, join_vars, pre_vars, ra_vars >>

NextFiles == Launch \/ os_chdir \/ read \/ write \/ exit

SpecFiles == InitFiles /\ [][NextFiles]_vars

\* ------------------------------------------------------ RegionalAnalysis.py
\* Most cities in the table handed to RegionalPartition_data.
MaxCities == 3

\* Lines 203-207: the regions and the states of each.  Four of the 32 states
\* are kept, two in the first region and one in each of the others; every
\* state is in one region.
regions_dictionary ==
    [ northern |-> << "02", "03" >>,
      south    |-> << "04" >>,
      center   |-> << "01" >> ]

\* MGN2020_States.gpkg: the four states are the quarters of the lattice
\* square, so that a locality shape lies in one state or across two.
StateRows ==
    << [CVE_ENT |-> "01", geometry |-> Rect(2, 2, 4, 4)],
       [CVE_ENT |-> "02", geometry |-> Rect(0, 0, 2, 2)],
       [CVE_ENT |-> "03", geometry |-> Rect(2, 0, 4, 2)],
       [CVE_ENT |-> "04", geometry |-> Rect(0, 2, 2, 4)] >>

\* The cells covered by each geometry of a city or of a state.
CellsOf ==
    [g \in Shapes \cup { StateRows[n].geometry : n \in DOMAIN StateRows } |->
        CoveredCells(g)] @@ << >>

\* Series.isin(values).
isin(x, values) == \E n \in DOMAIN values : values[n] = x

\* gpd.overlay(df1, df2, how = 'intersection'): one row for every pair of a
\* row of df1 and a row of df2 whose geometries overlap in area, with the
\* columns of both rows and the common area as geometry.
overlay_intersection(df1, df2) ==
    LET rowsOf(i) ==
            LET Meets(r) == CellsOf[df1[i].geometry] \cap CellsOf[r.geometry] # {}
                met == SelectSeq(df2, Meets)
            IN  [n \in 1 .. Len(met) |->
                    [id_convex |-> df1[i].id_convex,
                     POBTOT    |-> df1[i].POBTOT,
                     CVE_ENT   |-> met[n].CVE_ENT,
                     geometry  |-> CellsOf[df1[i].geometry] \cap CellsOf[met[n].geometry]]]
    IN  Concat([i \in 1 .. Len(df1) |-> rowsOf(i)], Len(df1))

\* The tables of cities: 1 to MaxCities cities, each a locality shape that
\* is not empty, with its id and its population.
CityTables ==
    UNION { { [i \in 1 .. n |->
                 [id_convex |-> i, POBTOT |-> Power(PobBase, i - 1),
                  geometry |-> ShapeList[f[i]]]] :
              f \in { c \in [1 .. n -> DOMAIN ShapeList] :
                        /\ \A i \in 1 .. n - 1 : c[i] <= c[i + 1]
                        /\ \A i \in 1 .. n : ShapeList[c[i]] # EmptyGeometry } } :
            n \in 1 .. MaxCities }

\* Lines 188-196: the states and a table of cities were read.
InitRegional ==
    /\ states_polygons = StateRows
    /\ data \in CityTables
    /\ state_partition = << >>
    /\ region_partition = << >>
    /\ ra_pc = "states"
    /\ IdleCCA
    /\ IdlePowerLaw
    /\ IdleJoin
    /\ IdlePreProcessing
    /\ IdleFiles

\* Lines 123-139: for every region, the rows of the states in its list.
RegionalPartition_States ==
    /\ ra_pc = "states"
    /\ state_partition' =
          [name_regions \in DOMAIN regions_dictionary |->
              LET InList(r) == isin(r.CVE_ENT, regions_dictionary[name_regions])
              IN  SelectSeq(states_polygons, InList)]
    /\ ra_pc' = "data"
    /\ UNCHANGED << states_polygons, data, region_partition,
                    cca_vars, pl_vars, join_vars, pre_vars, fs_vars >>

\* Lines 141-157: for every region, the overlay of the cities with the
\* states of the region.
RegionalPartition_data ==
    /\ ra_pc = "data"
    /\ region_partition' =
          [name_regions \in DOMAIN state_partition |->
              overlay_intersection(data, state_partition[name_regions])]
    /\ ra_pc' = "partitioned"
    /\ UNCHANGED << states_polygons, data, state_partition,
                    cca_vars, pl_vars, join_vars, pre_vars, fs_vars >>

NextRegional == RegionalPartition_States \/ RegionalPartition_data

SpecRegional == InitRegional /\ [][NextRegional]_vars

\* ------------------------------------------------------------ specification
Init == InitCCA

Next == CCA_by_ConvexEnvelopIntersections \/ Recluster

Spec == Init /\ [][Next]_vars

\* =================================================================== claims
\* The values of the column POBTOT of a table that are not null.
Totals(rows) ==
    LET NotNull(x) == x # NULL
    IN  SelectSeq([n \in DOMAIN rows |-> rows[n].POBTOT], NotNull)

\* The sum of POBTOT over a set of rows of the input table.
PopulationOf(rows) ==
    LET rs == SortedSeq(rows)
    IN  SumSeq([n \in DOMAIN rs |-> data_polygons[rs[n]].POBTOT])

\* The input rows whose centroid lies within a polygon of the union returned.
MatchedRows ==
    { i \in DOMAIN data_polygons :
        \E k \in DOMAIN natural_cities :
            CentroidWithin(data_polygons[i].geometry, natural_cities[k].geometry) }

\* The ids of the natural cities the input row i is grouped under.
CitiesOf(i) ==
    { data_merged[n].id_convex :
        n \in { r \in DOMAIN data_merged : data_merged[r].row = i } } \ {NULL}

\* The rows with a geometry that is not empty.
SolidRows == { i \in DOMAIN data_polygons : data_polygons[i].geometry # EmptyGeometry }

\* The keys of the input table are pairwise distinct.
KeysDistinct ==
    \A a, b \in DOMAIN data_polygons :
        a # b => data_polygons[a].key # data_polygons[b].key

\* C1: when the call returns, the sum of POBTOT over the natural cities is
\* the sum of POBTOT over the input polygons whose centroid was matched to a
\* polygon of the union: each matched polygon counts once, the others not.
C1_SumsExact ==
    pc = "returned" =>
        SumSeq(Totals(natural_cities)) = PopulationOf(MatchedRows)

\* The claim of C1 for the tables whose keys are pairwise distinct.
C1_SumsExactDistinctKeys == KeysDistinct => C1_SumsExact

\* C2: when the call returns, every input polygon with a centroid is grouped
\* under exactly one id_convex that is not null: never none, never two.
C2_ExactlyOneCity ==
    pc = "returned" =>
        \A i \in DOMAIN data_polygons :
            CentroidOf[data_polygons[i].geometry] # EmptyPoint =>
                /\ Cardinality(CitiesOf(i)) = 1
                /\ Cardinality({ r \in DOMAIN data_merged :
                                   /\ data_merged[r].row = i
                                   /\ data_merged[r].id_convex # NULL }) = 1

\* The rows reached from the rows of S along the pairs of the relation rel.
RECURSIVE ChainFrom(_, _)
ChainFrom(S, rel) ==
    LET T == S \cup { b \in SolidRows : \E a \in S : <<a, b>> \in rel }
    IN  IF T = S THEN S ELSE ChainFrom(T, rel)

\* The pairs of rows whose hulls have a common point.
IntersectingPairs ==
    { ab \in SolidRows \X SolidRows :
        Intersects(HullOf[data_polygons[ab[1]].geometry],
                   HullOf[data_polygons[ab[2]].geometry]) }

\* The pairs of rows whose hulls overlap in area or along a boundary segment.
DissolvedPairs ==
    { ab \in SolidRows \X SolidRows :
        HullOf[data_polygons[ab[2]].geometry]
            \in DissolvesOf[HullOf[data_polygons[ab[1]].geometry]] }

\* Three of four rows have hulls that overlap one another and the hull of the
\* fourth row s meets none of them.
ThreeAndOne(s) ==
    /\ Len(data_polygons) = 4
    /\ SolidRows = DOMAIN data_polygons
    /\ \A a, b \in DOMAIN data_polygons \ {s} :
          InteriorsMeet(HullOf[data_polygons[a].geometry],
                        HullOf[data_polygons[b].geometry])
    /\ \A a \in DOMAIN data_polygons \ {s} :
          ~ Intersects(HullOf[data_polygons[a].geometry],
                       HullOf[data_polygons[s].geometry])

\* C3: two input polygons are in the same natural city exactly when a chain
\* of pairwise intersecting hulls connects them; three polygons with
\* overlapping hulls and an isolated one give two natural cities with the sum
\* of the three and the value of the one.
C3_ChainOfIntersections ==
    (pc = "returned" /\ pass = 1) =>
        /\ \A a, b \in SolidRows :
              (CitiesOf(a) \cap CitiesOf(b) # {})
                 <=> (b \in ChainFrom({a}, IntersectingPairs))
        /\ \A s \in DOMAIN data_polygons :
              ThreeAndOne(s) =>
                 /\ Len(natural_cities) = 2
                 /\ Range(Totals(natural_cities))
                      = { PopulationOf(DOMAIN data_polygons \ {s}),
                          PopulationOf({s}) }

\* The claim of C3 with 'intersecting' read as overlapping in area or along
\* a boundary segment, for the tables whose keys are pairwise distinct.
C3_ChainOfDissolvedHulls ==
    (pc = "returned" /\ pass = 1 /\ KeysDistinct) =>
        /\ \A a, b \in SolidRows :
              (CitiesOf(a) \cap CitiesOf(b) # {})
                 <=> (b \in ChainFrom({a}, DissolvedPairs))
        /\ \A s \in DOMAIN data_polygons :
              ThreeAndOne(s) =>
                 /\ Len(natural_cities) = 2
                 /\ Range(Totals(natural_cities))
                      = { PopulationOf(DOMAIN data_polygons \ {s}),
                          PopulationOf({s}) }

\* The hulls whose interior meets the interior of the hull A.
OverlapOf == [A \in Hulls |-> { B \in Hulls : InteriorsMeet(A, B) }] @@ << >>

\* C4: the boundaries of the natural cities returned are pairwise disjoint in
\* area: no piece of one overlaps a piece of another.
C4_DisjointBoundaries ==
    pc = "returned" =>
        \A k, l \in DOMAIN natural_cities :
            k # l =>
                \A A \in natural_cities[k].geometry, B \in natural_cities[l].geometry :
                    B \notin OverlapOf[A]

\* C4 happens: a call returned several natural cities and one of them is the
\* union of hulls of different shape.
C4_Witness ==
    /\ pc = "returned"
    /\ Len(natural_cities) >= 2
    /\ \E k \in DOMAIN natural_cities : Cardinality(natural_cities[k].geometry) >= 2

Ended == pl_pc \in {"returned", "ZeroDivisionError", "LibraryError"}

\* C6: a call with it = 0 returns a p-value of 0 and raises nothing.
C6_ZeroIterationsReturnZero ==
    (Ended /\ it = 0 /\ fit.xmin # NULL) =>
        /\ pl_pc = "returned"
        /\ results.p_value.num = 0

\* The number of iterations so far whose synthetic fit has a distance
\* strictly greater than the distance of the empirical fit.
WorseFits ==
    Cardinality({ n \in DOMAIN simulated_D :
                    /\ simulated_D[n] # NULL
                    /\ ks_distance # NULL
                    /\ simulated_D[n] > ks_distance })

\* C7: with test = True every iteration is counted once, adding 1 when the
\* synthetic distance is strictly greater and 0 otherwise, and for it >= 1
\* the p-value returned is that count over it.
C7_PValueIsShareOfWorseFits ==
    /\ (test = TRUE /\ pl_pc \in {"loop", "divide", "returned"}) =>
          /\ Len(simulated_D) = j
          /\ p = WorseFits
    /\ (test = TRUE /\ pl_pc = "returned") =>
          /\ Len(simulated_D) = it
          /\ results.p_value = [num |-> WorseFits, den |-> it]

\* C7 happens: two iterations ran, one synthetic fit as far as the empirical
\* one and one farther, and the p-value returned is 1 / 2.
C7_Witness ==
    /\ pl_pc = "returned"
    /\ test = TRUE
    /\ it = 2
    /\ \E n \in DOMAIN simulated_D : simulated_D[n] = ks_distance
    /\ \E n \in DOMAIN simulated_D : simulated_D[n] > ks_distance
    /\ ks_distance # NULL
    /\ results.p_value = [num |-> 1, den |-> 2]

\* C8: the counter never exceeds the number of iterations executed, which
\* never exceeds it; the p-value returned lies in [0, 1] and is 0 or 1 when
\* it = 1.
C8_CounterWithinIterations ==
    /\ 0 <= p /\ p <= j /\ j <= it
    /\ pl_pc = "returned" =>
          /\ 0 <= results.p_value.num
          /\ results.p_value.num <= results.p_value.den
          /\ it = 1 => results.p_value.num \in {0, 1}

\* C8 happens: every iteration of a call with the most iterations counted.
C8_Witness ==
    /\ pl_pc = "returned"
    /\ it = MaxIt
    /\ j = it
    /\ p = j

\* C9: a call on a sample with fewer than two distinct values ends with the
\* typed error InsufficientData.
C9_InsufficientData ==
    (Ended /\ Cardinality(Range(df)) < 2) => pl_pc = "InsufficientData"

\* C10: a call on a sample without a positive value ends with the typed
\* error InvalidDomain.
C10_InvalidDomain ==
    (Ended /\ \A n \in DOMAIN df : df[n] <= 0) => pl_pc = "InvalidDomain"

\* The input rows whose centroid lies within no polygon of the union.
UnmatchedRows == DOMAIN data_polygons \ MatchedRows

\* C11: when a call returns and some centroid lies within no polygon of the
\* union, the tables returned record the polygons left out: data_grouped
\* keeps them in a row of their own, under the null id.
C11_UnmatchedReported ==
    (pc = "returned" /\ UnmatchedRows # {}) =>
        \E n \in DOMAIN data_grouped : data_grouped[n].id_convex = NULL

\* The polygons of the union of the hulls of the input table.
Components == unary_union(geometry_convexhull(data_polygons))

\* The input rows whose centroid lies within the geometry part.
MembersOf(part) ==
    { i \in DOMAIN data_polygons : CentroidWithin(data_polygons[i].geometry, part) }

\* C12: the natural cities returned are the polygons of the union that hold
\* the centroid of an input polygon, one row for each and none for another
\* polygon; every natural city has a member and a sum that is not null.
C12_CitiesHaveMembers ==
    pc = "returned" =>
        /\ { natural_cities[k].geometry : k \in DOMAIN natural_cities }
             = { part \in Components : MembersOf(part) # {} }
        /\ Len(natural_cities) = Cardinality({ part \in Components : MembersOf(part) # {} })
        /\ \A k \in DOMAIN natural_cities :
              /\ MembersOf(natural_cities[k].geometry) # {}
              /\ natural_cities[k].POBTOT # NULL
              /\ \E n \in DOMAIN data_merged :
                    data_merged[n].id_convex = natural_cities[k].id_convex

\* C12 happens: a call returned several natural cities, one of them with
\* more than one member, next to an input polygon that is in none.
C12_Witness ==
    /\ pc = "returned"
    /\ Len(natural_cities) >= 2
    /\ \E k \in DOMAIN natural_cities :
          Cardinality(MembersOf(natural_cities[k].geometry)) >= 2
    /\ UnmatchedRows # {}

RowsUnder(id) == { n \in DOMAIN data_merged : data_merged[n].id_convex = id }

Lex(a, b) == a[1] < b[1] \/ (a[1] = b[1] /\ a[2] < b[2])

\* The first vertex of a geometry in lexicographic order.
MinVertex(geom) ==
    CHOOSE v \in Vertices(geom) : \A w \in Vertices(geom) : v = w \/ Lex(v, w)

\* C15: the natural cities returned carry the ids 1 .. K, each once, in an
\* order fixed by the polygons alone; the order taken here is the
\* lexicographic order of the first vertex of each natural city.
C15_CanonicalIds ==
    pc = "returned" =>
        /\ \A k \in DOMAIN natural_cities : natural_cities[k].id_convex = k
        /\ \A k, l \in DOMAIN natural_cities :
              k < l => Lex(MinVertex(natural_cities[k].geometry),
                           MinVertex(natural_cities[l].geometry))

\* The ids 1 .. K are given, one to each polygon of the union.
C15_IdsOneToK ==
    pc = "returned" =>
        /\ Len(natural_cities) = Cardinality(Components)
        /\ \A k \in DOMAIN natural_cities : natural_cities[k].id_convex = k
        /\ \A k, l \in DOMAIN natural_cities :
              k # l => natural_cities[k].geometry # natural_cities[l].geometry

\* C19: a call on a table whose hulls join into one polygon ends by returning
\* one natural city, with the id 1 and the sum of POBTOT over all the rows.
C19_SingleComponentReturns ==
    (pc \in {"returned", "AttributeError"} /\ Cardinality(Components) = 1) =>
        /\ pc = "returned"
        /\ Len(natural_cities) = 1
        /\ natural_cities[1].id_convex = 1
        /\ natural_cities[1].POBTOT = PopulationOf(DOMAIN data_polygons)

\* The point pt lies in the closed convex polygon V, boundary included.
Covers(pt, V) ==
    /\ V # {}
    /\ \A e \in HullEdges(V) :
         (e[2][1] - e[1][1]) * (pt.y - pt.d * e[1][2])
           - (e[2][2] - e[1][2]) * (pt.x - pt.d * e[1][1]) >= 0

\* The point pt lies on the boundary of the convex polygon V.
OnBoundary(pt, V) == Covers(pt, V) /\ ~ StrictlyInside(pt, V)

\* C14: the join treats the boundary as inside: a centroid in the closed
\* polygon, on its boundary included, is given the id of the polygon.
C14_BoundaryInclusive ==
    sj_pc = "joined" =>
        \A V \in right_df.geometry :
            Covers(left_df, V) => joined.id_convex = right_df.id_convex

\* The join gives the id to the points of the interior and a null id to the
\* points of the boundary and of the outside.
C14_BoundaryExclusive ==
    sj_pc = "joined" =>
        \A V \in right_df.geometry :
            /\ (StrictlyInside(left_df, V) <=> joined.id_convex = right_df.id_convex)
            /\ (OnBoundary(left_df, V) => joined.id_convex = NULL)

C17_AlphaShifted ==
    pl_pc = "returned" =>
        /\ results.alpha = IF fit.alpha = NULL THEN NULL ELSE fit.alpha - 1
        /\ results.xmin = fit.xmin
        /\ results.sigma = fit.sigma
        /\ results.ks_distance = fit.D

\* C17 happens: a fit with the largest exponent and a standard error that
\* differs from the exponent minus 1 was returned.
C17_Witness ==
    /\ pl_pc = "returned"
    /\ fit.alpha = MaxAlpha
    /\ results.alpha = MaxAlpha - 1
    /\ results.sigma # results.alpha
    /\ results.sigma = fit.sigma

\* The synthetic sample s is made as C18 says: as long as the sample, first
\* n_1 sizes of the sample below xmin, then n_2 generated sizes that are at
\* least xmin, where n_1 and n_2 count the sizes of the sample below xmin and
\* at least xmin.
MadeOfTailAndPowerLaw(s) ==
    /\ Len(s) = Len(df)
    /\ Len(s) = n_1 + n_2
    /\ n_1 = Cardinality({ i \in DOMAIN df : fit.xmin # NULL /\ df[i] < fit.xmin })
    /\ n_2 = Cardinality({ i \in DOMAIN df : fit.xmin # NULL /\ df[i] >= fit.xmin })
    /\ \A i \in 1 .. n_1 :
          \E k \in DOMAIN df : df[k] < fit.xmin /\ s[i] = df[k]
    /\ \A i \in n_1 + 1 .. Len(s) :
          s[i] # NULL /\ fit.xmin # NULL /\ s[i] >= fit.xmin

\* C18: the synthetic sample of every iteration is as long as the sample and
\* made of n_1 sizes drawn from the sample below xmin and n_2 sizes generated
\* at or above xmin.
C18_SyntheticSample ==
    \A n \in DOMAIN simulated_data : MadeOfTailAndPowerLaw(simulated_data[n])

\* The claim of C18 for the samples the library finds a fit for.
C18_SyntheticSampleOfFit ==
    \A n \in DOMAIN simulated_data :
        fit.xmin # NULL => MadeOfTailAndPowerLaw(simulated_data[n])

\* The rows of the census file under the key: the census records of the
\* locality of that key.
RecordsOf(key) ==
    { n \in DOMAIN census_csv :
        key = ZeroPad(census_csv[n].ENTIDAD, 2) \o ZeroPad(census_csv[n].MUN, 3)
                \o ZeroPad(census_csv[n].LOC, 4) }

\* C20: every row passed to the clustering has POBTOT > 0 and comes from a
\* census record of its key with LOC in 1 .. 9997 and that population; a
\* polygon without a census record, or whose records have no inhabitants or
\* a LOC outside the range, is not passed.
C20_OnlyInhabitedLocalities ==
    pre_pc = "clustering" =>
        /\ \A n \in DOMAIN localities :
              /\ localities[n].POBTOT # NULL
              /\ localities[n].POBTOT > 0
              /\ \E r \in RecordsOf(localities[n].CVEGEO) :
                    /\ census_csv[r].LOC >= 1
                    /\ census_csv[r].LOC <= LocLimit - 1
                    /\ census_csv[r].POBTOT = localities[n].POBTOT
        /\ \A i \in DOMAIN localities_polygons :
              (\A r \in RecordsOf(localities_polygons[i].CVEGEO) :
                    \/ census_csv[r].POBTOT <= 0
                    \/ census_csv[r].LOC < 1
                    \/ census_csv[r].LOC > LocLimit - 1)
                => \A n \in DOMAIN localities :
                      localities[n].CVEGEO # localities_polygons[i].CVEGEO

\* C20 happens: a locality was passed to the clustering and another was not,
\* though the census holds a record with inhabitants under its key, with a
\* LOC outside the range.
C20_Witness ==
    /\ pre_pc = "clustering"
    /\ Len(localities) >= 1
    /\ \E i \in DOMAIN localities_polygons :
          /\ \A n \in DOMAIN localities :
                localities[n].CVEGEO # localities_polygons[i].CVEGEO
          /\ \E r \in RecordsOf(localities_polygons[i].CVEGEO) :
                census_csv[r].POBTOT > 0

\* C21: when a call returns, the total of every natural city is the sum of
\* POBTOT over the input polygons whose centroid lies within it, each polygon
\* counted once, also when several input polygons carry the same key.
C21_SharedKeyCountedOnce ==
    pc = "returned" =>
        \A k \in DOMAIN natural_cities :
            natural_cities[k].POBTOT
                = PopulationOf(MembersOf(natural_cities[k].geometry))

\* The polygons that share their key with another polygon are all grouped
\* under every natural city that holds one of them, each once per polygon
\* of the key held by that city.
C21_ReplicatedPerSharedKey ==
    pc = "returned" =>
        \A k \in DOMAIN natural_cities :
            natural_cities[k].POBTOT
                = SumSeq([n \in 1 .. Len(data_centroid) |->
                      IF data_centroid[n].id_convex = natural_cities[k].id_convex
                      THEN PopulationOf({ i \in DOMAIN data_polygons :
                                data_polygons[i].key = data_centroid[n].key })
                      ELSE 0])

\* The directory output of the project.
Output == Project \o << "output" >>

\* The tables DataProcessing hands to the scripts after it.
ProcessedTables ==
    { "Localities_data2020.gpkg", "NaturalCities_data2020.gpkg", "SUN2018_data.gpkg" }

\* The tables a script reads that an earlier script is to write.
PipelineTables == ProcessedTables \cup { "NaturalCitySystem.gpkg" }

\* C22: DataProcessing writes its three tables into the directory output of
\* the project, the scripts after it read them there, NaturalCitySystem.gpkg
\* is read where StatisticAnalysis wrote it, every table of the pipeline a
\* script asks for is found where an earlier script wrote it, and
\* DataProcessing does not end in an error.
C22_OneOutputDirectory ==
    /\ \A a \in accesses :
          (a.name \in ProcessedTables /\ (a.op = "write" \/ a.found)) => a.dir = Output
    /\ \A a \in accesses :
          (a.op = "read" /\ a.name \in PipelineTables) =>
              /\ a.found
              /\ \E w \in accesses :
                    w.op = "write" /\ w.dir = a.dir /\ w.name = a.name
    /\ \A w, r \in accesses :
          (w.op = "write" /\ r.op = "read" /\ w.name = "NaturalCitySystem.gpkg"
             /\ r.name = w.name) => r.dir = w.dir
    /\ outcome["DataProcessing"] \in { "not run", "running", "done" }

\* RegionalAnalysis, MapCities and VisualizationCities look for the tables of
\* the pipeline in the directory output of the project, wherever they are
\* launched from, and DataProcessing never writes there.
C22_ReadersLookInOutput ==
    \A a \in accesses :
        /\ (a.op = "read" /\ a.name \in PipelineTables
              /\ a.script # "StatisticAnalysis") => a.dir = Output
        /\ (a.script = "DataProcessing" /\ a.op = "write") =>
              a.dir = Project \o << "NaturalCities_Mexico", "output" >>

\* C23: the system exported is made of the cities of the fitted tail, those
\* with a size of at least xmin: it has n_2 cities and holds every city
\* whose size is xmin.
C23_SystemIsFittedTail ==
    pl_pc = "exported" =>
        /\ Len(natural_city_system) = n_2
        /\ \A i \in DOMAIN df :
              (fit.xmin # NULL /\ df[i] >= fit.xmin) =>
                  df[i] \in Range(natural_city_system)

\* The system exported is made of the cities with a size greater than xmin:
\* the cities of size xmin, of which a fit always has one, are left out, and
\* after a fit of NaN the system is empty.
C23_SystemIsAboveXmin ==
    pl_pc = "exported" =>
        /\ Range(natural_city_system)
             = { df[i] : i \in { k \in DOMAIN df : fit.xmin # NULL /\ df[k] > fit.xmin } }
        /\ fit.xmin # NULL =>
              /\ fit.xmin \in Range(df)
              /\ fit.xmin \notin Range(natural_city_system)
              /\ Len(natural_city_system)
                   = n_2 - Cardinality({ k \in DOMAIN df : df[k] = fit.xmin })

\* C25: a call with test = False draws and fits no synthetic sample and,
\* for it >= 1, returns the p-value 0 and it as the number of iterations;
\* in every call the xmin, alpha, sigma and distance returned are those of
\* the fit of the sample, which no step after the fit changes.
C25_NoTestNoBootstrap ==
    /\ [](test = FALSE =>
            /\ simulated_data = << >> /\ simulated_D = << >>
            /\ j = 0 /\ p = 0 /\ rng.drawn = 0)
    /\ []((pl_pc = "returned" /\ test = FALSE /\ it >= 1) =>
            /\ results.p_value = [num |-> 0, den |-> it]
            /\ results.test_iterations = it)
    /\ [](pl_pc = "returned" =>
            /\ fit \in Fits(df)
            /\ results.xmin = fit.xmin
            /\ results.alpha = FloatMinus(fit.alpha, 1)
            /\ results.sigma = fit.sigma
            /\ results.ks_distance = fit.D)
    /\ [][pl_pc # "fit" => (fit' = fit /\ ks_distance' = ks_distance)]_vars

\* C25 happens: a call without the test returned for the most iterations, on
\* a sample with a fit and sizes below xmin that a test would have drawn
\* from.
C25_Witness ==
    /\ pl_pc = "returned"
    /\ test = FALSE
    /\ it = MaxIt
    /\ fit.xmin # NULL
    /\ n_1 >= 1
    /\ results.p_value = [num |-> 0, den |-> MaxIt]
    /\ results.test_iterations = MaxIt

\* The rows of the regional tables that come from the city with the id.
EntriesOf(id) ==
    { e \in UNION { { << r, n >> : n \in DOMAIN region_partition[r] } :
                      r \in DOMAIN region_partition } :
        region_partition[e[1]][e[2]].id_convex = id }

\* Number_Elements of a region: the length of its size sample.
Number_Elements(r) == Len(region_partition[r])

\* The number of rows of all the regional tables together.
RECURSIVE TotalElements(_)
TotalElements(rs) ==
    IF rs = {} THEN 0
    ELSE LET r == CHOOSE x \in rs : TRUE
         IN  Number_Elements(r) + TotalElements(rs \ {r})

\* C24: after the partition every city is in the size sample of at most one
\* region and at most once, and the numbers of elements of the regions add
\* up to at most the number of cities.
C24_EachCityOnce ==
    ra_pc = "partitioned" =>
        /\ \A i \in DOMAIN data : Cardinality(EntriesOf(data[i].id_convex)) <= 1
        /\ TotalElements(DOMAIN region_partition) <= Len(data)

\* After the partition a city has one row, with its whole POBTOT, for every
\* state its geometry overlaps, in the table of the region of that state.
C24_OneRowPerStateMet ==
    ra_pc = "partitioned" =>
        \A i \in DOMAIN data :
            /\ Cardinality(EntriesOf(data[i].id_convex))
                 = Cardinality({ n \in DOMAIN states_polygons :
                      CellsOf[data[i].geometry] \cap CellsOf[states_polygons[n].geometry] # {} })
            /\ \A e \in EntriesOf(data[i].id_convex) :
                  /\ region_partition[e[1]][e[2]].POBTOT = data[i].POBTOT
                  /\ isin(region_partition[e[1]][e[2]].CVE_ENT, regions_dictionary[e[1]])

=============================================================================
